---- MODULE Spec2Model ----
(***************************************************************************)
(* A model of src/main.py of yt-summarizer: the URL identifier extractor   *)
(* (getId), the transcript normalizer (normalize_transcript), the          *)
(* transcript fetcher (fetch_script), the orchestrator (getSummary) and    *)
(* the endpoint (summary), with the MongoDB collection they share.         *)
(*                                                                         *)
(* Python strings on which the code works character by character (URLs,    *)
(* transcripts) are sequences of one-character strings.  Python's None     *)
(* for a str|None value is the value None below.                           *)
(***************************************************************************)
EXTENDS Integers, Sequences, FiniteSets, TLC

\* ------------------------------------------------------------------ bounds
\* Longest identifier put into a URL.
MaxIdLen == 2
\* Requests received over a run of the service.
MaxReq == 2
\* Longest string inside a provider payload.
MaxStrLen == 2

\* ----------------------------------------------------------- str methods
None == <<"<None>">>
\* Not called yet.
Pending == <<"<pending>">>

RECURSIVE Find(_, _, _)
\* s.find(c, i): the first index >= i holding c, 0 when there is none.
Find(s, c, i) ==
    IF i > Len(s) THEN 0
    ELSE IF s[i] = c THEN i
    ELSE Find(s, c, i + 1)

RECURSIVE RFind(_, _, _)
\* s.rfind(c): the last index <= i holding c, 0 when there is none.
RFind(s, c, i) ==
    IF i < 1 THEN 0
    ELSE IF s[i] = c THEN i
    ELSE RFind(s, c, i - 1)

\* The index of the first character of s that is in cs, 0 when there is none.
RECURSIVE FindAny(_, _, _)
FindAny(s, cs, i) ==
    IF i > Len(s) THEN 0
    ELSE IF s[i] \in cs THEN i
    ELSE FindAny(s, cs, i + 1)

Prefix(s, n) == SubSeq(s, 1, n)
Suffix(s, n) == SubSeq(s, n, Len(s))

RECURSIVE LStrip(_, _)
LStrip(s, cs) ==
    IF s # <<>> /\ Head(s) \in cs THEN LStrip(Tail(s), cs) ELSE s

RECURSIVE RStrip(_, _)
RStrip(s, cs) ==
    IF s # <<>> /\ s[Len(s)] \in cs THEN RStrip(Prefix(s, Len(s) - 1), cs) ELSE s

Strip(s, cs) == RStrip(LStrip(s, cs), cs)

RECURSIVE Split(_, _)
\* s.split(c): always at least one piece.
Split(s, c) ==
    LET i == Find(s, c, 1)
    IN  IF i = 0 THEN <<s>>
        ELSE <<Prefix(s, i - 1)>> \o Split(Suffix(s, i + 1), c)

RECURSIVE Replace(_, _, _)
Replace(s, c, d) ==
    IF s = <<>> THEN <<>>
    ELSE <<IF Head(s) = c THEN d ELSE Head(s)>> \o Replace(Tail(s), c, d)

\* str.lower() on the characters that occur in the model's URLs.
LowerChar(c) ==
    CASE c = "Y" -> "y"
      [] c = "X" -> "x"
      [] OTHER   -> c

RECURSIVE Lower(_)
Lower(s) == IF s = <<>> THEN <<>> ELSE <<LowerChar(Head(s))>> \o Lower(Tail(s))

\* ------------------------------------------------------------- urlparse
Letters == {"a", "b", "c", "d", "e", "h", "i", "l", "m", "o", "p", "r", "s",
            "t", "u", "v", "w", "x", "y", "X", "Y"}
SchemeChars == Letters \cup {"+", "-", "."}

\* urlsplit: the scheme is what precedes the first ':' when it starts with a
\* letter and holds scheme characters only.
UrlScheme(url) ==
    LET i == Find(url, ":", 1)
    IN  IF i > 1 /\ url[1] \in Letters
           /\ \A k \in 1..(i - 1) : url[k] \in SchemeChars
        THEN [scheme |-> Lower(Prefix(url, i - 1)), rest |-> Suffix(url, i + 1)]
        ELSE [scheme |-> <<>>, rest |-> url]

\* urlsplit: after "//" the netloc runs to the first of '/', '?', '#'.
UrlNetloc(rest) ==
    IF Len(rest) >= 2 /\ rest[1] = "/" /\ rest[2] = "/"
    THEN LET r == Suffix(rest, 3)
             i == FindAny(r, {"/", "?", "#"}, 1)
         IN  IF i = 0 THEN [netloc |-> r, rest |-> <<>>]
             ELSE [netloc |-> Prefix(r, i - 1), rest |-> Suffix(r, i)]
    ELSE [netloc |-> <<>>, rest |-> rest]

\* urlsplit: the fragment is cut at the first '#', then the query at the
\* first '?'.
UrlQuery(rest) ==
    LET h == Find(rest, "#", 1)
        nofrag == IF h = 0 THEN rest ELSE Prefix(rest, h - 1)
        q == Find(nofrag, "?", 1)
    IN  IF q = 0 THEN [path |-> nofrag, query |-> <<>>]
        ELSE [path |-> Prefix(nofrag, q - 1), query |-> Suffix(nofrag, q + 1)]

\* urlparse's _splitparams: ';' in the last path segment starts the params.
SplitParams(path) ==
    LET i == IF Find(path, "/", 1) # 0
             THEN Find(path, ";", RFind(path, "/", Len(path)))
             ELSE Find(path, ";", 1)
    IN  IF i = 0 THEN path ELSE Prefix(path, i - 1)

\* The hostname property: without userinfo and port, None when empty, in
\* lower case.
Hostname(netloc) ==
    LET at == RFind(netloc, "@", Len(netloc))
        hostinfo == IF at = 0 THEN netloc ELSE Suffix(netloc, at + 1)
        colon == Find(hostinfo, ":", 1)
        host == IF colon = 0 THEN hostinfo ELSE Prefix(hostinfo, colon - 1)
    IN  IF host = <<>> THEN None ELSE Lower(host)

urlparse(url) ==
    LET s == UrlScheme(url)
        n == UrlNetloc(s.rest)
        q == UrlQuery(n.rest)
    IN  [hostname |-> Hostname(n.netloc),
         path     |-> SplitParams(q.path),
         query    |-> q.query]

\* parse_qs(query)[name], as a sequence of values (<<>>: the name is not a
\* key): fields are separated by '&', name and value by the first '=', a
\* field with no '=' or with an empty value is dropped, '+' decodes to ' '.
RECURSIVE QsValues(_, _)
QsValues(fields, name) ==
    IF fields = <<>> THEN <<>>
    ELSE LET f == Head(fields)
             e == Find(f, "=", 1)
             k == Replace(Prefix(f, e - 1), "+", " ")
             v == Replace(Suffix(f, e + 1), "+", " ")
         IN  (IF e # 0 /\ v # <<>> /\ k = name THEN <<v>> ELSE <<>>)
             \o QsValues(Tail(fields), name)

parse_qs(query, name) == QsValues(Split(query, "&"), name)

\* ---------------------------------------------------------------- getId
HostWww == <<"w","w","w",".","y","o","u","t","u","b","e",".","c","o","m">>
HostBare == <<"y","o","u","t","u","b","e",".","c","o","m">>
HostShort == <<"y","o","u","t","u",".","b","e">>
SegLive == <<"l","i","v","e">>
SegEmbed == <<"e","m","b","e","d">>
SegShorts == <<"s","h","o","r","t","s">>

\* PathKinds with "live" forgotten.
PathKindsNoLive == {SegEmbed, SegShorts}

\* ("live", "embed", "shorts")
PathKinds == {SegLive, SegEmbed, SegShorts}

getId(url) ==
    LET parsed_url == urlparse(url)
        host == parsed_url.hostname
        v == parse_qs(parsed_url.query, <<"v">>)
        path_parts == Split(Strip(parsed_url.path, {"/"}), "/")
    IN  IF host \in {HostWww, HostBare} /\ v # <<>> THEN v[1]
        ELSE IF host \in {HostWww, HostBare} /\ Len(path_parts) >= 2
                /\ path_parts[1] \in PathKinds
             THEN path_parts[2]
        ELSE IF host = HostShort THEN LStrip(parsed_url.path, {"/"})
        ELSE None

\* ----------------------------------------------------------- JSON values
\* A decoded JSON value (what resp.json() returns): t is its Python type, s
\* the characters of a str, l the items of a list, d the (key, value) pairs
\* of a dict in their order.
JNull == [t |-> "null", s |-> <<>>, l |-> <<>>, d |-> <<>>]
JNum == [t |-> "num", s |-> <<>>, l |-> <<>>, d |-> <<>>]
JStr(x) == [t |-> "str", s |-> x, l |-> <<>>, d |-> <<>>]
JList(xs) == [t |-> "list", s |-> <<>>, l |-> xs, d |-> <<>>]
JDict(ps) == [t |-> "dict", s |-> <<>>, l |-> <<>>, d |-> ps]

\* Python truthiness: None, "", [] and {} are false; the model's number is
\* not zero.
Truthy(v) ==
    CASE v.t = "null" -> FALSE
      [] v.t = "str"  -> v.s # <<>>
      [] v.t = "list" -> v.l # <<>>
      [] v.t = "dict" -> v.d # <<>>
      [] OTHER        -> TRUE

\* key in dict
Has(v, key) == \E i \in 1..Len(v.d) : v.d[i][1] = key

\* dict[key], and dict.get(key): None when the key is absent.
Get(v, key) ==
    IF Has(v, key)
    THEN v.d[CHOOSE i \in 1..Len(v.d) : v.d[i][1] = key][2]
    ELSE JNull

\* a or b
Or(a, b) == IF Truthy(a) THEN a ELSE b

\* ------------------------------------------------------- raised or returned
\* What a call comes to: exc is "none" and val the returned value, or exc is
\* the class of the exception raised and msg its text.
Ok(x) == [exc |-> "none", msg |-> "", val |-> x]
Raise(e, m) == [exc |-> e, msg |-> m, val |-> <<>>]

Whitespace == {" "}

RECURSIVE Join(_, _)
\* sep.join(parts)
Join(parts, sep) ==
    IF parts = <<>> THEN <<>>
    ELSE IF Len(parts) = 1 THEN parts[1]
    ELSE parts[1] \o sep \o Join(Tail(parts), sep)

RECURSIVE NonEmpty(_)
\* [t for t in texts if t]
NonEmpty(texts) ==
    IF texts = <<>> THEN <<>>
    ELSE (IF Head(texts) # <<>> THEN <<Head(texts)>> ELSE <<>>) \o NonEmpty(Tail(texts))

\* --------------------------------------------------- normalize_transcript
RECURSIVE NormItems(_)
\* The loop over a list's items: the parts collected, or the AttributeError
\* of .strip() on a truthy text that is no str.
NormItems(items) ==
    IF items = <<>> THEN Ok(<<>>)
    ELSE LET item == Head(items)
             rest == NormItems(Tail(items))
             text == Or(Or(Get(item, "text"), Get(item, "caption")), JStr(<<>>))
         IN  IF item.t = "str"
             THEN IF rest.exc # "none" THEN rest
                  ELSE Ok(<<Strip(item.s, Whitespace)>> \o rest.val)
             ELSE IF item.t = "dict" /\ Truthy(text)
             THEN IF text.t # "str"
                  THEN Raise("AttributeError", "object has no attribute 'strip'")
                  ELSE IF rest.exc # "none" THEN rest
                  ELSE Ok(<<Strip(text.s, Whitespace)>> \o rest.val)
             ELSE rest

NormList(items) ==
    LET parts == NormItems(items)
    IN  IF parts.exc # "none" THEN parts
        ELSE Ok(Strip(Join(parts.val, <<" ">>), Whitespace))

RECURSIVE NormValues(_)
\* The loop over a dict's values: str values stripped, list values
\* normalized, the others passed over.
NormValues(pairs) ==
    IF pairs = <<>> THEN Ok(<<>>)
    ELSE LET v == Head(pairs)[2]
             rest == NormValues(Tail(pairs))
             sub == NormList(v.l)
         IN  IF v.t = "str"
             THEN IF rest.exc # "none" THEN rest
                  ELSE Ok(<<Strip(v.s, Whitespace)>> \o rest.val)
             ELSE IF v.t = "list"
             THEN IF sub.exc # "none" THEN sub
                  ELSE IF rest.exc # "none" THEN rest
                  ELSE Ok(<<sub.val>> \o rest.val)
             ELSE rest

\* tracks[0] of a dict's "tracks" when that is a non-empty list whose first
\* item is a dict with a "transcript" key.
TrackWithTranscript(tracks) ==
    /\ tracks.t = "list"
    /\ Len(tracks.l) > 0
    /\ tracks.l[1].t = "dict"
    /\ Has(tracks.l[1], "transcript")

RECURSIVE normalize_transcript(_)
normalize_transcript(transcript) ==
    IF transcript.t = "null" THEN Raise("ValueError", "Transcript is empty")
    ELSE IF transcript.t = "str" THEN Ok(Strip(transcript.s, Whitespace))
    ELSE IF transcript.t = "list" THEN NormList(transcript.l)
    ELSE IF transcript.t = "dict" /\ Has(transcript, "transcript")
         THEN normalize_transcript(Get(transcript, "transcript"))
    ELSE IF transcript.t = "dict" /\ Has(transcript, "tracks")
            /\ TrackWithTranscript(Get(transcript, "tracks"))
         THEN normalize_transcript(Get(Get(transcript, "tracks").l[1], "transcript"))
    ELSE IF transcript.t = "dict"
         THEN LET texts == NormValues(transcript.d)
                  joined == Join(NonEmpty(texts.val), <<" ">>)
              IN  IF texts.exc # "none" THEN texts
                  ELSE IF joined # <<>> THEN Ok(Strip(joined, Whitespace))
                  ELSE Raise("ValueError", "Unsupported transcript format")
    ELSE Raise("ValueError", "Unsupported transcript format")

\* ------------------------------------------------------------ fetch_script
\* What requests.post comes to: kind "timeout" (requests.exceptions.Timeout),
\* "neterr" (another RequestException) or "http", a response with its
\* status_code, whether its body is JSON (json_ok), and the decoded body.
Timeout == [kind |-> "timeout", status_code |-> 0, json_ok |-> FALSE, data |-> JNull]
NetErr == [kind |-> "neterr", status_code |-> 0, json_ok |-> FALSE, data |-> JNull]
Http(code, ok, body) == [kind |-> "http", status_code |-> code, json_ok |-> ok, data |-> body]

KeyChars(key) ==
    CASE key = "transcript" -> <<"t","r","a","n","s","c","r","i","p","t">>
      [] key = "text"       -> <<"t","e","x","t">>
      [] key = "tracks"     -> <<"t","r","a","c","k","s">>

\* sub in s, for two str
IsSubstring(sub, s) ==
    \E i \in 1..(Len(s) - Len(sub) + 1) : SubSeq(s, i, i + Len(sub) - 1) = sub

\* key in obj, for a video_obj of any type: a key of a dict, a substring of
\* a str, an item of a list; a number raises TypeError.
Contains(obj, key) ==
    CASE obj.t = "dict" -> Has(obj, key)
      [] obj.t = "str"  -> IsSubstring(KeyChars(key), obj.s)
      [] obj.t = "list" -> \E i \in 1..Len(obj.l) :
                               obj.l[i].t = "str" /\ obj.l[i].s = KeyChars(key)
      [] OTHER          -> FALSE

\* The choice of video_obj: data[0] of a non-empty list, results[0] of a
\* dict with a non-empty "results" list, else the dict itself, else None.
SelectVideoObj(data) ==
    IF data.t = "list" /\ Len(data.l) > 0 THEN data.l[1]
    ELSE IF data.t = "dict"
         THEN IF Has(data, "results") /\ Get(data, "results").t = "list"
                 /\ Len(Get(data, "results").l) > 0
              THEN Get(data, "results").l[1]
              ELSE data
    ELSE JNull

\* for key in ("transcript", "text", "tracks"): the first key that is in
\* video_obj with a truthy value gives raw_transcript, else None.
FirstKeyed(video_obj) ==
    IF Has(video_obj, "transcript") /\ Truthy(Get(video_obj, "transcript"))
    THEN Get(video_obj, "transcript")
    ELSE IF Has(video_obj, "text") /\ Truthy(Get(video_obj, "text"))
    THEN Get(video_obj, "text")
    ELSE IF Has(video_obj, "tracks") /\ Truthy(Get(video_obj, "tracks"))
    THEN Get(video_obj, "tracks")
    ELSE JNull

\* The second look, taken when the loop found nothing: the first item's
\* "transcript" of video_obj.get("tracks") or video_obj.get("captions").
FirstTrack(video_obj) ==
    LET tracks == Or(Get(video_obj, "tracks"), Get(video_obj, "captions"))
    IN  IF TrackWithTranscript(tracks) THEN Get(tracks.l[1], "transcript")
        ELSE JNull

\* raw_transcript of a dict video_obj (None: not found).
RawTranscript(video_obj) ==
    LET keyed == FirstKeyed(video_obj)
        deep == IF keyed.t = "null" THEN FirstTrack(video_obj) ELSE keyed
    IN  IF deep.t = "null" /\ Has(video_obj, "text") /\ Truthy(Get(video_obj, "text"))
        THEN Get(video_obj, "text")
        ELSE deep

\* The tail of fetch_script: normalize, and refuse an empty text.
NormalizedScript(raw_transcript) ==
    LET script_text == normalize_transcript(raw_transcript)
    IN  IF script_text.exc # "none" THEN script_text
        ELSE IF script_text.val = <<>>
        THEN Raise("ValueError", "Transcript returned but empty after normalization")
        ELSE script_text

\* The part of fetch_script that reads the decoded body.
ScriptOfData(data) ==
    LET video_obj == SelectVideoObj(data)
    IN  IF ~Truthy(video_obj)
        THEN Raise("ValueError", "Transcript not found in API response")
        ELSE IF video_obj.t = "num"
        THEN Raise("TypeError", "argument of type 'int' is not iterable")
        ELSE IF video_obj.t # "dict"
        THEN IF \E key \in {"transcript", "text", "tracks"} : Contains(video_obj, key)
             THEN Raise("TypeError", "indices must be integers")
             ELSE Raise("AttributeError", "object has no attribute 'get'")
        ELSE IF RawTranscript(video_obj).t = "null"
        THEN Raise("ValueError", "Transcript not present in API response")
        ELSE NormalizedScript(RawTranscript(video_obj))

\* fetch_script(video_id) with the credential set or not (api_key) and what
\* the provider answers (resp).  No request is sent without the credential.
fetch_script(api_key, resp) ==
    IF ~api_key
    THEN Raise("RuntimeError", "Transcript API key not configured")
    ELSE IF resp.kind = "timeout"
    THEN Raise("RuntimeError", "Transcript API request timed out")
    ELSE IF resp.kind = "neterr"
    THEN Raise("RuntimeError", "Transcript API request failed")
    ELSE IF resp.status_code # 200
    THEN Raise("RuntimeError", "Transcript API error")
    ELSE IF ~resp.json_ok
    THEN Raise("RuntimeError", "Transcript API returned invalid JSON")
    ELSE ScriptOfData(resp.data)

\* ------------------------------------------------------------- getSummary
\* The character budget of the transcript put into the prompt.
MAX_CHARS == 20000

\* script[:MAX_CHARS] when the script is longer.
Truncate(script) ==
    IF Len(script) > MAX_CHARS THEN Prefix(script, MAX_CHARS) ELSE script

\* What openai_client.responses.create comes to: kind "raise" (any
\* exception), "object" (a response object with the attribute output_text),
\* "dict" (a dict, body) or "other" (an object with neither).
LlmRaise == [kind |-> "raise", output_text |-> JNull, body |-> JNull]
LlmObject(text) == [kind |-> "object", output_text |-> text, body |-> JNull]
LlmDict(body) == [kind |-> "dict", output_text |-> JNull, body |-> body]
LlmOther == [kind |-> "other", output_text |-> JNull, body |-> JNull]

RECURSIVE ContentText(_)
\* for c in first["content"]: the "text" of the first dict item that has one.
ContentText(content) ==
    IF content = <<>> THEN JNull
    ELSE IF Head(content).t = "dict" /\ Has(Head(content), "text")
    THEN Get(Head(content), "text")
    ELSE ContentText(Tail(content))

\* The fallback on a dict response: the first output item's content text,
\* text or output_text, then the response's own output_text or text.
DictSummary(body) ==
    LET out == Get(body, "output")
        first == IF out.t = "list" /\ Len(out.l) > 0 THEN out.l[1] ELSE JNull
        content == Get(first, "content")
        fromContent == IF first.t = "dict" /\ Has(first, "content") /\ content.t = "list"
                       THEN ContentText(content.l)
                       ELSE JNull
        fromFirst == IF first.t = "dict"
                     THEN Or(Or(fromContent, Get(first, "text")), Get(first, "output_text"))
                     ELSE JNull
    IN  IF Truthy(fromFirst) THEN fromFirst
        ELSE Or(Get(body, "output_text"), Get(body, "text"))

\* summary_text as extracted from the response (JNull: None).
ExtractSummary(response) ==
    CASE response.kind = "object" -> response.output_text
      [] response.kind = "dict"   -> DictSummary(response.body)
      [] OTHER                    -> JNull

\* Summarize without the check that a summary text was extracted.
SummarizeUnchecked(response) ==
    IF response.kind = "raise" THEN Raise("RuntimeError", "LLM request failed")
    ELSE Ok(ExtractSummary(response).s)

\* The LLM call and the extraction: the summary text or the RuntimeError.
Summarize(response) ==
    IF response.kind = "raise" THEN Raise("RuntimeError", "LLM request failed")
    ELSE IF ~Truthy(ExtractSummary(response))
    THEN Raise("RuntimeError", "Unable to extract summary text from LLM response")
    ELSE Ok(ExtractSummary(response).s)

\* ------------------------------------------------------------ the collection
\* Doc with the summary text left out of the document.
DocWithoutText(video_id, output_text) == [video_id |-> video_id, output_text |-> <<>>]

\* A document of db["summaries"]; created_at, which nothing reads, is left
\* out.  NoDoc is find_one's None.
Doc(video_id, output_text) == [video_id |-> video_id, output_text |-> output_text]
NoDoc == [video_id |-> None]

RECURSIVE find_one(_, _)
\* collection.find_one({"video_id": vid_id}): the first match in the
\* collection's order.
find_one(docs, vid_id) ==
    IF docs = <<>> THEN NoDoc
    ELSE IF Head(docs).video_id = vid_id THEN Head(docs)
    ELSE find_one(Tail(docs), vid_id)

\* CacheHit looking for a field the documents do not have.
CacheHitWrongField(cached_doc) ==
    "video_id" \in DOMAIN cached_doc /\ cached_doc.video_id # None
    /\ "summary" \in DOMAIN cached_doc

\* cached_doc and "output_text" in cached_doc
CacheHit(cached_doc) ==
    "video_id" \in DOMAIN cached_doc /\ cached_doc.video_id # None
    /\ "output_text" \in DOMAIN cached_doc

\* collection.insert_one(doc): "error" on a store-level error, "duplicate"
\* when the unique index on video_id exists and refuses the document, else
\* "ok" and the document is appended.
InsertOutcome(docs, unique, vid_id, store_error) ==
    IF store_error THEN "error"
    ELSE IF unique /\ \E i \in 1..Len(docs) : docs[i].video_id = vid_id THEN "duplicate"
    ELSE "ok"

\* AfterInsert with no except clause around insert_one.
AfterInsertRaises(outcome, summary_text) ==
    IF outcome = "ok"
    THEN [exc |-> "none", summary |-> summary_text, cached |-> FALSE]
    ELSE [exc |-> "PyMongoError", summary |-> <<>>, cached |-> FALSE]

\* What getSummary comes to after insert_one: the except clause swallows
\* whatever insert_one raised.
AfterInsert(outcome, summary_text) ==
    [exc |-> "none", summary |-> summary_text, cached |-> FALSE]

\* --------------------------------------------------------------- summary
\* The endpoint's status code for what getSummary raised ("none": returned).
HttpStatus(exc) ==
    CASE exc = "none"         -> 200
      [] exc = "ValueError"   -> 400
      [] exc = "RuntimeError" -> 502
      [] OTHER                -> 500

\* The response of GET /summary.
HttpResponse(result) ==
    IF result.exc = "none"
    THEN [status |-> 200, summary |-> result.summary, cached |-> result.cached]
    ELSE [status |-> HttpStatus(result.exc), summary |-> <<>>, cached |-> FALSE]

\* AfterFetch with the provider called again when the call failed.
AfterFetchRetry(fetched) ==
    IF fetched.exc = "none" THEN "llm"
    ELSE IF fetched.exc = "RuntimeError" THEN "fetch"
    ELSE "done"

\* Where getSummary goes after fetch_script: on to the LLM call when it
\* returned, out of the function when it raised.
AfterFetch(fetched) == IF fetched.exc = "none" THEN "llm" ELSE "done"

\* ------------------------------------------------------------------ state
VARIABLES
    uniqueIndex,  \* whether create_index("video_id", unique=True) took effect
    apiKey,       \* whether TRANSCRIPT_API_KEY is set
    collection,   \* db["summaries"], its documents in insertion order
    pc,           \* where each request stands in summary/getSummary
    vid_id,       \* getSummary's vid_id
    script,       \* getSummary's script
    summary_text, \* getSummary's summary_text
    response,     \* the response of GET /summary, once the request is done
    held,         \* observed: the collection held a document of vid_id when
                  \* find_one ran
    calls,        \* observed: the find_one, requests.post, responses.create
                  \* and insert_one calls of the request
    cause,        \* observed: what made the request fail
    alone,        \* observed: no other request ran while this one did
    idUrl, idOut, \* an input of getId and what it returned
    fResp, fOut   \* an input of fetch_script and what it came to

reqVars == <<collection, pc, vid_id, script, summary_text, response, held,
             calls, cause, alone>>
envVars == <<uniqueIndex, apiKey, idUrl, idOut, fResp, fOut>>
vars == <<uniqueIndex, apiKey, collection, pc, vid_id, script, summary_text,
          response, held, calls, cause, alone, idUrl, idOut, fResp, fOut>>

Reqs == 1..MaxReq

Https == <<"h","t","t","p","s",":","/","/">>
Watch == <<"/","w","a","t","c","h","?","v","=">>

\* The URLs the requests carry: two forms of the video x, the video y, and a
\* host that is not YouTube's.
RequestUrls ==
    << Https \o HostShort \o <<"/","x">>,
       Https \o HostWww \o Watch \o <<"x">>,
       Https \o HostShort \o <<"/","y">>,
       Https \o <<"e","x",".","c","o","m">> \o Watch \o <<"x">> >>

\* What the transcript provider may answer.
ProviderAnswers ==
    << Timeout,
       NetErr,
       Http(500, TRUE, JDict(<<>>)),
       Http(200, FALSE, JNull),
       Http(200, TRUE, JDict(<< <<"transcript", JStr(<<"a"," ">>)>> >>)),
       Http(200, TRUE, JDict(<< <<"results", JList(<< JDict(<< <<"captions",
            JList(<< JDict(<< <<"transcript", JStr(<<"a">>)>> >>) >>)>> >>) >>)>> >>)),
       Http(200, TRUE, JDict(<< <<"tracks",
            JList(<< JDict(<< <<"transcript", JStr(<<"a">>)>> >>) >>)>> >>)),
       Http(200, TRUE, JDict(<< <<"transcript", JStr(<<" ">>)>> >>)),
       Http(200, TRUE, JList(<< JStr(<<"a">>) >>)) >>

\* What the LLM provider may answer.
LlmAnswers ==
    << LlmRaise,
       LlmObject(JStr(<<"s">>)),
       LlmObject(JStr(<<"t">>)),
       LlmObject(JStr(<<>>)),
       LlmDict(JDict(<< <<"output", JList(<< JDict(<< <<"content",
            JList(<< JDict(<< <<"text", JStr(<<"s">>)>> >>) >>)>> >>) >>)>> >>)),
       LlmDict(JDict(<<>>)),
       LlmOther >>

\* getId, fetch_script and the summarizing on each of these inputs.
IdOfUrl == [i \in 1..Len(RequestUrls) |-> getId(RequestUrls[i])]
Fetched == [key \in BOOLEAN, i \in 1..Len(ProviderAnswers) |->
               fetch_script(key, ProviderAnswers[i])]
Summarized == [i \in 1..Len(LlmAnswers) |-> Summarize(LlmAnswers[i])]

NoCalls == [find |-> 0, post |-> 0, llm |-> 0, insert |-> 0]

\* One more call of a kind, counted up to 2.
Count(c, kind) == [c EXCEPT ![kind] = IF @ < 2 THEN @ + 1 ELSE @]

InitRequests ==
    /\ collection = <<>>
    /\ pc = [r \in Reqs |-> "idle"]
    /\ vid_id = [r \in Reqs |-> None]
    /\ script = [r \in Reqs |-> <<>>]
    /\ summary_text = [r \in Reqs |-> <<>>]
    /\ response = [r \in Reqs |-> [status |-> 0, summary |-> <<>>, cached |-> FALSE]]
    /\ held = [r \in Reqs |-> FALSE]
    /\ calls = [r \in Reqs |-> NoCalls]
    /\ cause = [r \in Reqs |-> "none"]
    /\ alone = [r \in Reqs |-> FALSE]

IdlePure ==
    /\ idUrl = <<>> /\ idOut = Pending
    /\ fResp = Timeout /\ fOut = Raise("-", "")

\* The service after start-up: the index was created or create_index raised
\* and the exception was passed over; the credential is set or not.
Init ==
    /\ uniqueIndex \in BOOLEAN
    /\ apiKey \in BOOLEAN
    /\ InitRequests
    /\ IdlePure

\* The request ends with what getSummary returned or raised.  vid_id stays
\* as the video the summary returned is of, when there is one.
Finish(r, result, why) ==
    /\ pc' = [pc EXCEPT ![r] = "done"]
    /\ response' = [response EXCEPT ![r] = HttpResponse(result)]
    /\ cause' = [cause EXCEPT ![r] = why]
    /\ vid_id' = [vid_id EXCEPT ![r] = IF result.exc = "none" THEN @ ELSE None]

Failed(exc) == [exc |-> exc, summary |-> <<>>, cached |-> FALSE]

\* GET /summary?url=... arrives (requests are numbered as they arrive) and
\* getSummary extracts the id: no id is a ValueError.
Receive(r, u) ==
    /\ pc[r] = "idle"
    /\ \A q \in Reqs : q < r => pc[q] # "idle"
    /\ alone' = [q \in Reqs |->
                    IF q = r THEN \A o \in Reqs : pc[o] \in {"idle", "done"}
                    ELSE IF pc[q] \in {"idle", "done"} THEN alone[q]
                    ELSE FALSE]
    /\ IF IdOfUrl[u] \in {None, <<>>}
       THEN Finish(r, Failed("ValueError"), "no_id")
       ELSE /\ pc' = [pc EXCEPT ![r] = "find"]
            /\ vid_id' = [vid_id EXCEPT ![r] = IdOfUrl[u]]
            /\ UNCHANGED <<response, cause>>
    /\ UNCHANGED <<collection, held, calls, script, summary_text>>
    /\ UNCHANGED envVars

\* collection.find_one: a store error leaves getSummary as an exception that
\* is neither ValueError nor RuntimeError; a hit returns the cached summary.
FindOne(r, store_error) ==
    /\ pc[r] = "find"
    /\ calls' = [calls EXCEPT ![r] = Count(@, "find")]
    /\ held' = [held EXCEPT ![r] =
                   \E i \in 1..Len(collection) : collection[i].video_id = vid_id[r]]
    /\ LET cached_doc == find_one(collection, vid_id[r])
       IN  IF store_error
           THEN Finish(r, Failed("PyMongoError"), "lookup")
           ELSE IF CacheHit(cached_doc)
           THEN Finish(r, [exc |-> "none", summary |-> cached_doc.output_text,
                           cached |-> TRUE], "none")
           ELSE /\ pc' = [pc EXCEPT ![r] = "fetch"]
                /\ UNCHANGED <<response, cause, vid_id>>
    /\ UNCHANGED <<collection, alone, script, summary_text>>
    /\ UNCHANGED envVars

\* Why a fetch failed, read off what the provider answered.
FetchCause(a) ==
    LET resp == ProviderAnswers[a] IN
    IF ~apiKey THEN "config"
    ELSE IF resp.kind # "http" \/ resp.status_code # 200 \/ ~resp.json_ok THEN "upstream"
    ELSE "content"

\* fetch_script, then the truncation of the script.
FetchScript(r, a) ==
    /\ pc[r] = "fetch"
    /\ calls' = [calls EXCEPT ![r] = IF apiKey THEN Count(@, "post") ELSE @]
    /\ LET fetched == Fetched[apiKey, a]
       IN  IF AfterFetch(fetched) = "done"
           THEN Finish(r, Failed(fetched.exc), FetchCause(a)) /\ UNCHANGED script
           ELSE /\ pc' = [pc EXCEPT ![r] = AfterFetch(fetched)]
                /\ script' = [script EXCEPT ![r] = Truncate(fetched.val)]
                /\ UNCHANGED <<response, cause, vid_id>>
    /\ UNCHANGED <<collection, held, alone, summary_text>>
    /\ UNCHANGED envVars

\* openai_client.responses.create on the prompt, and the extraction of the
\* summary text.
CreateResponse(r, a) ==
    /\ pc[r] = "llm"
    /\ calls' = [calls EXCEPT ![r] = Count(@, "llm")]
    /\ LET summarized == Summarized[a]
       IN  IF summarized.exc # "none"
           THEN Finish(r, Failed(summarized.exc), "llm") /\ UNCHANGED summary_text
           ELSE /\ pc' = [pc EXCEPT ![r] = "insert"]
                /\ summary_text' = [summary_text EXCEPT ![r] = summarized.val]
                /\ UNCHANGED <<response, cause, vid_id>>
    /\ UNCHANGED <<collection, held, alone, script>>
    /\ UNCHANGED envVars

\* collection.insert_one, whose exception is passed over, and the return.
InsertOne(r, store_error) ==
    /\ pc[r] = "insert"
    /\ calls' = [calls EXCEPT ![r] = Count(@, "insert")]
    /\ LET outcome == InsertOutcome(collection, uniqueIndex, vid_id[r], store_error)
       IN  /\ collection' = IF outcome = "ok"
                            THEN Append(collection, Doc(vid_id[r], summary_text[r]))
                            ELSE collection
           /\ Finish(r, AfterInsert(outcome, summary_text[r]),
                     IF outcome = "ok" THEN "none" ELSE outcome)
    /\ UNCHANGED <<held, alone, script, summary_text>>
    /\ UNCHANGED envVars

Next ==
    \/ \E r \in Reqs, u \in 1..Len(RequestUrls) : Receive(r, u)
    \/ \E r \in Reqs, e \in BOOLEAN : FindOne(r, e)
    \/ \E r \in Reqs, a \in 1..Len(ProviderAnswers) : FetchScript(r, a)
    \/ \E r \in Reqs, a \in 1..Len(LlmAnswers) : CreateResponse(r, a)
    \/ \E r \in Reqs, e \in BOOLEAN : InsertOne(r, e)

Spec == Init /\ [][Next]_vars

\* ---------------------------------------------------------- getId alone
\* The characters of the identifiers: letters of both cases, '-' and '_' as
\* in YouTube's identifiers, and characters that have a meaning in a URL.
UrlSafeChars == {"x", "y", "X", "-", "_"}
IdChars == UrlSafeChars \cup {"+", "/", "#", "&", ";", "?"}

RECURSIVE SeqsUpTo(_, _)
\* The sequences over S of length 1..n.
SeqsUpTo(S, n) ==
    IF n = 0 THEN {}
    ELSE LET shorter == SeqsUpTo(S, n - 1)
         IN  {<<c>> : c \in S} \cup shorter \cup {sq \o <<c>> : sq \in shorter, c \in S}

Ids == SeqsUpTo(IdChars, MaxIdLen)

UrlForms == {"watch_www", "watch", "short", "shorts", "embed", "live",
             "other_host", "mobile_host", "two_v"}

\* The URL of a form for an identifier.
UrlOf(form, id) ==
    CASE form = "watch_www"   -> Https \o HostWww \o Watch \o id
      [] form = "watch"       -> Https \o HostBare \o Watch \o id
      [] form = "short"       -> Https \o HostShort \o <<"/">> \o id
      [] form = "shorts"      -> Https \o HostWww \o <<"/">> \o SegShorts \o <<"/">> \o id
      [] form = "embed"       -> Https \o HostWww \o <<"/">> \o SegEmbed \o <<"/">> \o id
      [] form = "live"        -> Https \o HostWww \o <<"/">> \o SegLive \o <<"/">> \o id
      [] form = "other_host"  -> Https \o <<"e","x",".","c","o","m">> \o Watch \o id
      [] form = "mobile_host" -> Https \o <<"m",".">> \o HostBare \o Watch \o id
      [] form = "two_v"       -> Https \o HostWww \o Watch \o id \o <<"&","v","=","y">>

IdleRequests ==
    /\ uniqueIndex = TRUE
    /\ apiKey = TRUE
    /\ InitRequests

InitId ==
    /\ IdleRequests
    /\ \E form \in UrlForms, id \in Ids :
          idUrl = [form |-> form, id |-> id, url |-> UrlOf(form, id)]
    /\ idOut = Pending
    /\ fResp = Timeout /\ fOut = Raise("-", "")

\* getId is called on the URL.
CallGetId ==
    /\ idOut = Pending
    /\ idOut' = getId(idUrl.url)
    /\ UNCHANGED <<uniqueIndex, apiKey, idUrl, fResp, fOut>>
    /\ UNCHANGED reqVars

NextId == CallGetId

SpecId == InitId /\ [][NextId]_vars

\* ---------------------------------------------------- fetch_script alone
Strs == {<<>>} \cup SeqsUpTo({"a", " "}, MaxStrLen)

\* What a "transcript" field may hold.
TranscriptValues ==
    {JNull, JNum} \cup {JStr(x) : x \in Strs}
    \cup {JList(<< JDict(<< <<"text", JStr(x)>> >>) >>) : x \in Strs}

\* The items of a "tracks" or "captions" list.
TrackItems ==
    {JDict(<< <<"transcript", v>> >>) : v \in TranscriptValues}
    \cup {JDict(<< <<"text", JStr(x)>> >>) : x \in Strs}
    \cup {JStr(<<"a">>)}

TrackValues == {JNull, JList(<<>>)} \cup {JList(<<e>>) : e \in TrackItems}

\* A field of the object, present or not.
Field(key, values) == {<<>>} \cup {<< <<key, v>> >> : v \in values}

VideoObjects ==
    {JDict(a \o b \o c \o d) :
        a \in Field("transcript", {JNull, JStr(<<>>), JStr(<<"a">>)}),
        b \in Field("text", {JStr(<<>>), JStr(<<"a", " ">>)}),
        c \in Field("tracks", TrackValues),
        d \in Field("captions", TrackValues)}

\* The bodies the provider answers: the object, a list of it, or a dict
\* with it under "results".
Bodies ==
    VideoObjects
    \cup {JList(<<o>>) : o \in VideoObjects}
    \cup {JDict(<< <<"results", JList(<<o>>)>> >>) : o \in VideoObjects}

InitFetch ==
    /\ IdleRequests
    /\ idUrl = <<>> /\ idOut = Pending
    /\ fResp \in {Http(200, TRUE, b) : b \in Bodies}
    /\ fOut = Raise("-", "")

\* fetch_script is called and the provider answers fResp.
CallFetchScript ==
    /\ fOut = Raise("-", "")
    /\ fOut' = fetch_script(apiKey, fResp)
    /\ UNCHANGED <<uniqueIndex, apiKey, idUrl, idOut, fResp>>
    /\ UNCHANGED reqVars

NextFetch == CallFetchScript

SpecFetch == InitFetch /\ [][NextFetch]_vars

\* ------------------------------------------------------------- the claims
Done(r) == pc[r] = "done"
Succeeded(r) == Done(r) /\ response[r].status = 200

\* The request r missed the cache, summarized and stored its document.
Stored(r) == Succeeded(r) /\ ~response[r].cached /\ cause[r] = "none"

\* The documents of a video in the collection.
DocsOf(video) == {i \in 1..Len(collection) : collection[i].video_id = video}

\* The request served the first document of its video from the cache.
ServedFromCache(r) ==
    /\ Succeeded(r)
    /\ response[r].cached
    /\ \E i \in DocsOf(vid_id[r]) :
          /\ \A j \in DocsOf(vid_id[r]) : i <= j
          /\ response[r].summary = collection[i].output_text

NoPaidWork(r) == calls[r].post = 0 /\ calls[r].llm = 0 /\ calls[r].insert = 0

LookupFirst == \A r \in Reqs : calls[r].post > 0 \/ calls[r].llm > 0 => calls[r].find > 0

Follows(q, r) == r = q + 1 /\ Done(q) /\ Done(r) /\ alone[q] /\ alone[r]

\* The request q, alone, found no document of its video and succeeded.
FreshSuccess(q) == Succeeded(q) /\ alone[q] /\ ~held[q]

HitWithTextOf(q, r) ==
    response[r].cached /\ response[r].summary = response[q].summary

\* C2 as claimed: a successful request that found no document of its video
\* fetched, summarized, inserted a document and returned cached: false, and
\* the request that follows it for the same video returns cached: true and
\* the same text.
C2_AsClaimed ==
    \A q \in Reqs : FreshSuccess(q) =>
        /\ calls[q].post = 1 /\ calls[q].llm = 1
        /\ Stored(q)
        /\ \A r \in Reqs : Follows(q, r) /\ vid_id[r] = vid_id[q] => HitWithTextOf(q, r)

\* C2, amended: a successful request that found no document of its video
\* fetched, summarized, attempted the insert and returned cached: false;
\* when the insert stored the document, the request that follows it for the
\* same video returns cached: true and the same text.
C2_MissThenHit ==
    \A q \in Reqs : FreshSuccess(q) =>
        /\ calls[q].post = 1 /\ calls[q].llm = 1 /\ calls[q].insert = 1
        /\ ~response[q].cached
        /\ Stored(q) =>
              \A r \in Reqs : Follows(q, r) /\ vid_id[r] = vid_id[q] => HitWithTextOf(q, r)

\* A miss that stored its document, followed by a hit of the same video.
C2_Witness ==
    \E q \in Reqs, r \in Reqs :
        /\ FreshSuccess(q) /\ Stored(q)
        /\ Follows(q, r) /\ vid_id[r] = vid_id[q] /\ HitWithTextOf(q, r)

\* C3 as claimed: the collection never holds two documents of one video,
\* and the document a request stored stays as it was stored.
C3_OneDocumentPerVideo ==
    /\ \A i \in 1..Len(collection), j \in 1..Len(collection) :
          collection[i].video_id = collection[j].video_id => i = j
    /\ \A r \in Reqs : Stored(r) =>
          \E i \in 1..Len(collection) :
              collection[i] = Doc(vid_id[r], response[r].summary)

\* C4: a request whose insert_one failed, refused by the unique index or by
\* a store error, is answered 200 with the summary text it had produced and
\* cached: false.
C4_InsertFailureSwallowed ==
    \A r \in Reqs : Done(r) /\ cause[r] \in {"duplicate", "error"} =>
        /\ summary_text[r] # <<>>
        /\ response[r] = [status |-> 200, summary |-> summary_text[r], cached |-> FALSE]

\* Of two requests for one video, the second to insert was refused by the
\* unique index and was answered 200 all the same.
C4_Witness ==
    \E q \in Reqs, r \in Reqs :
        /\ Stored(q) /\ vid_id[q] = vid_id[r]
        /\ Succeeded(r) /\ cause[r] = "duplicate"

\* The status the failure of a request calls for.
StatusFor(why) ==
    CASE why \in {"none", "duplicate", "error"} -> 200
      [] why \in {"no_id", "content"}           -> 400
      [] why \in {"upstream", "llm"}            -> 502
      [] OTHER                                  -> 500

\* C5 as claimed: no video id and a transcript absent, empty or of an
\* unrecognized shape give 400; a provider timeout, network error, non-200
\* status or unparseable body and a failed or empty LLM answer give 502; any
\* other failure gives 500; no failure gives 200.
C5_StatusByFailure ==
    \A r \in Reqs : Done(r) => response[r].status = StatusFor(cause[r])

\* C6 as claimed: without the provider credential, a request that misses
\* the cache is answered in the 500 class, not 502, with no provider call
\* and no LLM call made.
C6_ConfigFailureIs500 ==
    \A r \in Reqs : Done(r) /\ cause[r] = "config" =>
        /\ response[r].status = 500
        /\ calls[r].post = 0 /\ calls[r].llm = 0

\* C7: a request calls the provider at most once and the LLM at most once,
\* calls the LLM only after its provider call returned a non-empty
\* normalized text, and calls no LLM when its fetch failed.
C7_SingleAttempt ==
    \A r \in Reqs :
        /\ calls[r].post <= 1 /\ calls[r].llm <= 1
        /\ pc[r] = "llm" \/ calls[r].llm > 0 => calls[r].post = 1 /\ script[r] # <<>>
        /\ cause[r] \in {"config", "upstream", "content"} => calls[r].llm = 0

\* One request called the provider and the LLM once each, another's
\* provider call failed and it called no LLM.
C7_Witness ==
    \E q \in Reqs, r \in Reqs :
        /\ Done(q) /\ calls[q].post = 1 /\ calls[q].llm = 1
        /\ Done(r) /\ cause[r] = "upstream" /\ calls[r].post = 1 /\ calls[r].llm = 0

\* A getId call was made on a URL of the form for the identifier.
GotId(form) == idOut # Pending /\ idUrl.form = form

ClaimedForms == {"watch_www", "watch", "short", "shorts", "embed", "live"}

\* C8 as claimed: each of the six forms gives back every non-empty
\* identifier, a host that is not YouTube's gives None, and of several v
\* parameters the first is returned.
C8_AsClaimed ==
    /\ \A form \in ClaimedForms \cup {"two_v"} : GotId(form) => idOut = idUrl.id
    /\ \A form \in {"other_host", "mobile_host"} : GotId(form) => idOut = None

UrlSafe(id) == \A i \in 1..Len(id) : id[i] \in UrlSafeChars

\* C8, amended: each of the six forms gives back every non-empty identifier
\* made of letters, digits, '-' and '_'; a host that is not YouTube's gives
\* None whatever the identifier; of several v parameters the first is
\* returned.
C8_IdOfEachForm ==
    /\ \A form \in ClaimedForms \cup {"two_v"} :
          GotId(form) /\ UrlSafe(idUrl.id) => idOut = idUrl.id
    /\ \A form \in {"other_host", "mobile_host"} : GotId(form) => idOut = None

\* getId returned the identifier of a /live/ URL, of the greatest length.
C8_Witness ==
    /\ GotId("live") /\ UrlSafe(idUrl.id) /\ Len(idUrl.id) = MaxIdLen
    /\ idOut = idUrl.id

\* The first item of the object's "tracks", or of its "captions" when it has
\* no "tracks", carries a "transcript" that normalizes to a non-empty text.
DeepTranscript(video_obj) ==
    LET tracks == IF Has(video_obj, "tracks") THEN Get(video_obj, "tracks")
                  ELSE Get(video_obj, "captions")
        deep == Get(tracks.l[1], "transcript")
    IN  /\ TrackWithTranscript(tracks)
        /\ normalize_transcript(deep).exc = "none"
        /\ normalize_transcript(deep).val # <<>>

DeepText(video_obj) ==
    LET tracks == IF Has(video_obj, "tracks") THEN Get(video_obj, "tracks")
                  ELSE Get(video_obj, "captions")
    IN  normalize_transcript(Get(tracks.l[1], "transcript"))

\* C9 as claimed: for an object with no non-empty "transcript" and no
\* non-empty "text" whose "tracks" (or, without "tracks", "captions") is a
\* non-empty list whose first item carries a "transcript", fetch_script
\* returns the normalized text of that transcript.
C9_DeepTranscriptReturned ==
    LET video_obj == SelectVideoObj(fResp.data)
    IN  /\ fOut.exc # "-"
        /\ video_obj.t = "dict"
        /\ ~Truthy(Get(video_obj, "transcript"))
        /\ ~Truthy(Get(video_obj, "text"))
        /\ DeepTranscript(video_obj)
        => fOut = DeepText(video_obj)

\* C10: every document has a non-empty output_text and is the document of
\* a request that called the LLM, got a summary and stored it, one document
\* per such request; every 200 response carries a non-empty summary; a
\* request that failed made no insert.
C10_DocumentsFromSummaries ==
    /\ \A i \in 1..Len(collection) :
          /\ collection[i].output_text # <<>>
          /\ \E r \in Reqs :
                /\ Stored(r) /\ calls[r].llm = 1 /\ summary_text[r] # <<>>
                /\ collection[i] = Doc(vid_id[r], summary_text[r])
    /\ Len(collection) = Cardinality({r \in Reqs : Stored(r)})
    /\ \A r \in Reqs : Succeeded(r) => response[r].summary # <<>>
    /\ \A r \in Reqs : Done(r) /\ ~Succeeded(r) => calls[r].insert = 0

\* A document is stored and a request failed after its LLM call.
C10_Witness ==
    /\ Len(collection) >= 1
    /\ \E r \in Reqs : Done(r) /\ cause[r] = "llm" /\ calls[r].llm = 1

====
